---- MODULE Spec2Model ----
(***************************************************************************)
(* LLM inference hardware calculator (src/src/App.tsx).                    *)
(*                                                                         *)
(* The component keeps seven inputs and a loading flag in React state and  *)
(* recomputes, on every render, a hardware recommendation and an on-disk   *)
(* size from them.  All of the arithmetic is done on ECMAScript Numbers,   *)
(* that is IEEE-754 binary64 values with round-to-nearest-even after every *)
(* operation.  The model keeps that arithmetic: a Number is a record       *)
(* [m, e] standing for m * 2^e with a 53 bit significand m, held as a      *)
(* little-endian sequence of 10 bit limbs because the significand does not *)
(* fit the integers of the model checker.                                  *)
(***************************************************************************)
EXTENDS Integers, Sequences, FiniteSets, TLC

(***************************************************************************)
(* Natural numbers of arbitrary size: little-endian limbs, no high zeros.  *)
(***************************************************************************)
LimbBits == 10
Base == 2 ^ LimbBits

RECURSIVE Trim(_)
Trim(s) ==
  IF s = <<>> THEN <<>>
  ELSE IF s[Len(s)] = 0 THEN Trim(SubSeq(s, 1, Len(s) - 1))
  ELSE s

RECURSIVE BigFromInt(_)
BigFromInt(n) ==
  IF n = 0 THEN <<>> ELSE <<n % Base>> \o BigFromInt(n \div Base)

RECURSIVE BigToInt(_)
BigToInt(a) ==
  IF a = <<>> THEN 0 ELSE a[1] + Base * BigToInt(Tail(a))

LowLimb(a) == IF a = <<>> THEN 0 ELSE a[1]
HighLimbs(a) == IF a = <<>> THEN <<>> ELSE Tail(a)

RECURSIVE BigAddC(_, _, _)
BigAddC(a, b, c) ==
  IF a = <<>> /\ b = <<>> THEN (IF c = 0 THEN <<>> ELSE <<c>>)
  ELSE <<(LowLimb(a) + LowLimb(b) + c) % Base>>
         \o BigAddC(HighLimbs(a), HighLimbs(b),
                    (LowLimb(a) + LowLimb(b) + c) \div Base)

BigAdd(a, b) == BigAddC(a, b, 0)

\* a * k for a small factor k (k < 2^21)
RECURSIVE BigMulSmallC(_, _, _)
BigMulSmallC(a, k, c) ==
  IF a = <<>> THEN BigFromInt(c)
  ELSE <<(a[1] * k + c) % Base>>
         \o BigMulSmallC(Tail(a), k, (a[1] * k + c) \div Base)

BigMulSmall(a, k) == IF k = 0 THEN <<>> ELSE BigMulSmallC(a, k, 0)

\* a * Base^n
ShiftLimbs(a, n) ==
  IF a = <<>> THEN <<>> ELSE [i \in 1..n |-> 0] \o a

RECURSIVE BigMul(_, _)
BigMul(a, b) ==
  IF b = <<>> \/ a = <<>> THEN <<>>
  ELSE BigAdd(BigMulSmall(a, b[1]), ShiftLimbs(BigMul(a, Tail(b)), 1))

\* quotient and remainder of a by a small divisor d (d < 2^21)
AppendDigit(rest, digit) == [q |-> rest.q \o <<digit>>, r |-> rest.r]

RECURSIVE BigDivSmallR(_, _, _)
BigDivSmallR(a, d, r) ==
  \* a is consumed from its high limb; r is the running remainder
  IF a = <<>> THEN [q |-> <<>>, r |-> r]
  ELSE AppendDigit(BigDivSmallR(SubSeq(a, 1, Len(a) - 1), d,
                                (r * Base + a[Len(a)]) % d),
                   (r * Base + a[Len(a)]) \div d)

TrimQuotient(x) == [q |-> Trim(x.q), r |-> x.r]

BigDivSmall(a, d) == TrimQuotient(BigDivSmallR(a, d, 0))

RECURSIVE IntBitLen(_)
IntBitLen(n) == IF n = 0 THEN 0 ELSE 1 + IntBitLen(n \div 2)

BigBitLen(a) ==
  IF a = <<>> THEN 0 ELSE (Len(a) - 1) * LimbBits + IntBitLen(a[Len(a)])

\* a * 2^n
BigShl(a, n) ==
  ShiftLimbs(BigMulSmall(a, 2 ^ (n % LimbBits)), n \div LimbBits)

\* floor(a / 2^n)
DropLimbs(a, k) == IF k >= Len(a) THEN <<>> ELSE SubSeq(a, k + 1, Len(a))

BigShr(a, n) ==
  BigDivSmall(DropLimbs(a, n \div LimbBits), 2 ^ (n % LimbBits)).q

\* a is a multiple of 2^n
BigDivisible(a, n) == BigShl(BigShr(a, n), n) = a

BigIsOdd(a) == a # <<>> /\ a[1] % 2 = 1

RECURSIVE BigLess(_, _)
BigLess(a, b) ==
  \* a < b, for operands without high zero limbs
  IF Len(a) # Len(b) THEN Len(a) < Len(b)
  ELSE IF a = <<>> THEN FALSE
  ELSE IF a[Len(a)] # b[Len(b)] THEN a[Len(a)] < b[Len(b)]
  ELSE BigLess(SubSeq(a, 1, Len(a) - 1), SubSeq(b, 1, Len(b) - 1))

RECURSIVE LowZeroLimbs(_)
LowZeroLimbs(a) ==
  \* number of low zero limbs of a non-zero a
  IF a[1] = 0 THEN 1 + LowZeroLimbs(Tail(a)) ELSE 0

RECURSIVE TrailingZeros(_)
TrailingZeros(a) ==
  \* number of low zero bits of a non-zero a
  IF a[1] = 0 THEN LimbBits + TrailingZeros(Tail(a))
  ELSE IF a[1] % 2 = 0 THEN 1 + TrailingZeros(<<a[1] \div 2>>)
  ELSE 0

(***************************************************************************)
(* ECMAScript Numbers.  A positive Number is [m, e] with 2^52 <= m < 2^53  *)
(* and value m * 2^e; zero is [<<>>, 0].  The program never produces a     *)
(* negative, subnormal, infinite or NaN value from its slider inputs.      *)
(***************************************************************************)
Precision == 53

Zero == [m |-> <<>>, e |-> 0]

\* r * 2^e for a rounded significand r of 53 or, after a carry, 54 bits
Renormalise(r, e) ==
  IF BigBitLen(r) > Precision
  THEN [m |-> BigShr(r, 1), e |-> e + 1]
  ELSE [m |-> r, e |-> e]

\* q is the significand cut to 53 bits, half its first dropped bit, inexact
\* says that something below that bit is not zero: round to nearest, ties
\* to even
RoundUp(q, half, inexact, e) ==
  Renormalise(IF half /\ (inexact \/ BigIsOdd(q)) THEN BigAdd(q, <<1>>) ELSE q,
              e)

RoundBits(n, e, sticky, len) ==
  IF len <= Precision
  THEN [m |-> BigShl(n, Precision - len), e |-> e - (Precision - len)]
  ELSE RoundUp(BigShr(n, len - Precision),
               BigIsOdd(BigShr(n, len - Precision - 1)),
               sticky \/ ~BigDivisible(n, len - Precision - 1),
               e + (len - Precision))

\* The Number nearest to (n + s) * 2^e, ties to even, where s is a fraction
\* strictly between 0 and 1 when sticky holds and 0 when it does not.
RoundToNumber(n, e, sticky) ==
  IF n = <<>> THEN Zero ELSE RoundBits(n, e, sticky, BigBitLen(n))

\* Number(n) for a non-negative integer n
FromInt(n) == RoundToNumber(BigFromInt(n), 0, FALSE)

\* a * b (the low zero limbs of the significands go to the exponent first)
fmul(a, b) ==
  IF a.m = <<>> \/ b.m = <<>> THEN Zero
  ELSE RoundToNumber(BigMul(DropLimbs(a.m, LowZeroLimbs(a.m)),
                            DropLimbs(b.m, LowZeroLimbs(b.m))),
                     a.e + b.e
                       + LimbBits * (LowZeroLimbs(a.m) + LowZeroLimbs(b.m)),
                     FALSE)

\* a + b
fadd(a, b) ==
  IF a.m = <<>> THEN b
  ELSE IF b.m = <<>> THEN a
  ELSE IF a.e < b.e
  THEN RoundToNumber(BigAdd(a.m, BigShl(b.m, b.e - a.e)), a.e, FALSE)
  ELSE RoundToNumber(BigAdd(BigShl(a.m, a.e - b.e), b.m), b.e, FALSE)

\* a / b, for a divisor whose significand has at most 21 significant bits
\* (every divisor of the program is one of the integers 2048, 24, 8, 1e9)
RoundQuotient(qr, e) == RoundToNumber(qr.q, e, qr.r # 0)

\* a / (odd * 2^shift): exact for odd = 1, else the quotient of the
\* significand with 30 more bits, rounded once
DivideByOdd(a, odd, shift) ==
  IF odd = 1 THEN [m |-> a.m, e |-> a.e - shift]
  ELSE RoundQuotient(BigDivSmall(ShiftLimbs(a.m, 3), odd),
                     a.e - 3 * LimbBits - shift)

fdiv(a, b) ==
  IF a.m = <<>> THEN Zero
  ELSE DivideByOdd(a, BigToInt(BigShr(b.m, TrailingZeros(b.m))),
                   b.e + TrailingZeros(b.m))

\* the value of a decimal literal num/den (den a power of ten)
Literal(num, den) == fdiv(FromInt(num), FromInt(den))

\* a < b
flt(a, b) ==
  IF b.m = <<>> THEN FALSE
  ELSE IF a.m = <<>> THEN TRUE
  ELSE IF a.e # b.e THEN a.e < b.e
  ELSE BigLess(a.m, b.m)

\* a <= b
fle(a, b) == ~flt(b, a)

\* the first argument, whatever the second
fmaxFirst(a, b) == a

\* Math.max(a, b)
fmax(a, b) == IF flt(a, b) THEN b ELSE a

\* Math.floor(a) + 1
fceilFloorPlusOne(a) ==
  IF a.m = <<>> THEN 1
  ELSE IF a.e >= 0 THEN BigToInt(BigShl(a.m, a.e)) + 1
  ELSE BigToInt(BigShr(a.m, 0 - a.e)) + 1

\* Math.ceil(a), as an integer
fceil(a) ==
  IF a.m = <<>> THEN 0
  ELSE IF a.e >= 0 THEN BigToInt(BigShl(a.m, a.e))
  ELSE BigToInt(BigShr(a.m, 0 - a.e))
         + (IF BigDivisible(a.m, 0 - a.e) THEN 0 ELSE 1)

\* a.toFixed(digits): the integer n with n / 10^digits nearest to a, the
\* larger one on a tie; the string is n written with that many digits after
\* the point
toFixed(a, digits) ==
  IF a.m = <<>> THEN 0
  ELSE IF a.e >= 0 THEN BigToInt(BigShl(BigMulSmall(a.m, 10 ^ digits), a.e))
  ELSE BigToInt(BigShr(BigAdd(BigMulSmall(a.m, 10 ^ digits),
                              BigShl(<<1>>, 0 - a.e - 1)),
                       0 - a.e))

(***************************************************************************)
(* State of the App component (section 1 of App.tsx) and what it renders.  *)
(***************************************************************************)
VARIABLES
  params,          \* billions of parameters
  modelQuant,      \* ModelQuantization
  useKvCache,
  kvCacheQuant,    \* KvCacheQuantization
  contextLength,
  memoryMode,      \* MemoryMode
  systemMemory,    \* GB
  loading,
  timers,          \* pending setTimeout callbacks of onSubmit
  rendered,        \* the function body has run on the current state
  recommendation,  \* the Recommendation computed by the last render
  onDiskSize       \* the on-disk size computed by the last render

inputs == <<params, modelQuant, useKvCache, kvCacheQuant, contextLength,
            memoryMode, systemMemory>>
vars == <<params, modelQuant, useKvCache, kvCacheQuant, contextLength,
          memoryMode, systemMemory, loading, timers, rendered,
          recommendation, onDiskSize>>

\* the state the helper functions close over
State ==
  [params        |-> params,
   modelQuant    |-> modelQuant,
   useKvCache    |-> useKvCache,
   kvCacheQuant  |-> kvCacheQuant,
   contextLength |-> contextLength,
   memoryMode    |-> memoryMode,
   systemMemory  |-> systemMemory]

MemoryMode == {"DISCRETE_GPU", "UNIFIED_MEMORY"}
ModelQuantization ==
  {"F32", "F16", "Q8", "Q6", "Q5", "Q4", "Q3", "Q2", "GPTQ", "AWQ"}
KvCacheQuantization == {"F32", "F16", "Q8", "Q5", "Q4"}

(***************************************************************************)
(* Helper functions (section 2 of App.tsx).  Each is a closure over the    *)
(* component state, here the record st.                                    *)
(***************************************************************************)
One == FromInt(1)

\* Q6 with the factor of Q5
ModelQuantFactorsTypo ==
  [F32  |-> Literal(40, 10),
   F16  |-> Literal(20, 10),
   Q8   |-> Literal(10, 10),
   Q6   |-> Literal(625, 1000),
   Q5   |-> Literal(625, 1000),
   Q4   |-> Literal(5, 10),
   Q3   |-> Literal(375, 1000),
   Q2   |-> Literal(25, 100),
   GPTQ |-> Literal(4, 10),
   AWQ  |-> Literal(35, 100)]

\* the cases of the switch in getModelQuantFactor
ModelQuantFactors ==
  [F32  |-> Literal(40, 10),
   F16  |-> Literal(20, 10),
   Q8   |-> Literal(10, 10),
   Q6   |-> Literal(75, 100),
   Q5   |-> Literal(625, 1000),
   Q4   |-> Literal(5, 10),
   Q3   |-> Literal(375, 1000),
   Q2   |-> Literal(25, 100),
   GPTQ |-> Literal(4, 10),
   AWQ  |-> Literal(35, 100)]

\* the value of a switch: the case of key, or the default
Switch(cases, key, default) ==
  IF key \in DOMAIN cases THEN cases[key] ELSE default

\* a default that is not the Q8 factor
getModelQuantFactorOtherDefault(q) ==
  Switch(ModelQuantFactors, q, Literal(20, 10))

getModelQuantFactor(q) == Switch(ModelQuantFactors, q, One)

\* the cases of the switch in getKvCacheQuantFactor
KvCacheQuantFactors ==
  [F32 |-> Literal(40, 10),
   F16 |-> Literal(20, 10),
   Q8  |-> Literal(10, 10),
   Q5  |-> Literal(625, 1000),
   Q4  |-> Literal(5, 10)]

getKvCacheQuantFactor(k) == Switch(KvCacheQuantFactors, k, One)

ContextReference == FromInt(2048)

\* if (contextScale < 1) contextScale = 1
AtLeastOne(scale) == IF flt(scale, One) THEN One ELSE scale

\* no floor at 1
contextScaleNoFloor(len) == fdiv(FromInt(len), ContextReference)

\* contextScale of calculateRequiredVram
contextScale(len) == AtLeastOne(fdiv(FromInt(len), ContextReference))

alpha == Literal(2, 10)

\* the locals of calculateRequiredVram, one operator each
modelFactor(st) == getModelQuantFactor(st.modelQuant)

baseModelMem(st) == fmul(FromInt(st.params), modelFactor(st))

modelMem(st) == fmul(baseModelMem(st), contextScale(st.contextLength))

kvFactor(st) == getKvCacheQuantFactor(st.kvCacheQuant)

\* the test of useKvCache inverted
kvCacheMemInverted(st) ==
  IF ~st.useKvCache
  THEN fmul(fmul(fmul(FromInt(st.params), kvFactor(st)),
                 contextScale(st.contextLength)),
            alpha)
  ELSE Zero

kvCacheMem(st) ==
  IF st.useKvCache
  THEN fmul(fmul(fmul(FromInt(st.params), kvFactor(st)),
                 contextScale(st.contextLength)),
            alpha)
  ELSE Zero

calculateRequiredVram(st) == fadd(modelMem(st), kvCacheMem(st))

UnifiedFraction == Literal(75, 100)

\* all of the system memory
getMaxUnifiedVramAll(memGB) == memGB

getMaxUnifiedVram(memGB) == fmul(memGB, UnifiedFraction)

\* the branch of calculateHardwareRecommendation for UNIFIED_MEMORY
UnifiedMemoryBranch(requiredVram, recSystemMemory) ==
  IF fle(requiredVram, getMaxUnifiedVram(recSystemMemory))
  THEN [gpuType         |-> "Unified memory (ex: Apple silicon, AMD Ryzen Al Max+ 395)",
        vramNeeded      |-> toFixed(requiredVram, 1),
        fitsUnified     |-> TRUE,
        systemRamNeeded |-> recSystemMemory,
        gpusRequired    |-> 1]
  ELSE [gpuType         |-> "Unified memory (insufficient)",
        vramNeeded      |-> toFixed(requiredVram, 1),
        fitsUnified     |-> FALSE,
        systemRamNeeded |-> recSystemMemory,
        gpusRequired    |-> 0]

singleGpuVram == 24

\* fitsUnified computed in the discrete branch too
DiscreteGpuBranchFits(requiredVram, recSystemMemory) ==
  IF fle(requiredVram, FromInt(singleGpuVram))
  THEN [gpuType         |-> "Single 24GB GPU",
        vramNeeded      |-> toFixed(requiredVram, 1),
        fitsUnified     |-> fle(requiredVram, getMaxUnifiedVram(recSystemMemory)),
        systemRamNeeded |-> fmax(recSystemMemory, requiredVram),
        gpusRequired    |-> 1]
  ELSE [gpuType         |-> "Discrete GPUs (24GB each)",
        vramNeeded      |-> toFixed(requiredVram, 1),
        fitsUnified     |-> fle(requiredVram, getMaxUnifiedVram(recSystemMemory)),
        systemRamNeeded |-> fmax(recSystemMemory, requiredVram),
        gpusRequired    |-> fceil(fdiv(requiredVram, FromInt(singleGpuVram)))]

\* the rest of calculateHardwareRecommendation: discrete GPUs
DiscreteGpuBranch(requiredVram, recSystemMemory) ==
  IF fle(requiredVram, FromInt(singleGpuVram))
  THEN [gpuType         |-> "Single 24GB GPU",
        vramNeeded      |-> toFixed(requiredVram, 1),
        fitsUnified     |-> FALSE,
        systemRamNeeded |-> fmax(recSystemMemory, requiredVram),
        gpusRequired    |-> 1]
  ELSE [gpuType         |-> "Discrete GPUs (24GB each)",
        vramNeeded      |-> toFixed(requiredVram, 1),
        fitsUnified     |-> FALSE,
        systemRamNeeded |-> fmax(recSystemMemory, requiredVram),
        gpusRequired    |-> fceil(fdiv(requiredVram, FromInt(singleGpuVram)))]

\* the body of calculateHardwareRecommendation once requiredVram and
\* recSystemMemory are set
Recommend(mode, requiredVram, recSystemMemory) ==
  IF mode = "UNIFIED_MEMORY"
  THEN UnifiedMemoryBranch(requiredVram, recSystemMemory)
  ELSE DiscreteGpuBranch(requiredVram, recSystemMemory)

calculateHardwareRecommendation(st) ==
  Recommend(st.memoryMode, calculateRequiredVram(st), FromInt(st.systemMemory))

\* the cases of the switch in calculateOnDiskSize
BitsPerParam ==
  [F32 |-> 32, F16 |-> 16, Q8 |-> 8, Q6 |-> 6, Q5 |-> 5, Q4 |-> 4, Q3 |-> 3,
   Q2 |-> 2, GPTQ |-> 4, AWQ |-> 4]

Giga == FromInt(1000000000)
\* no overhead
overheadFactorNone == FromInt(1)

overheadFactor == Literal(11, 10)

\* the locals of calculateOnDiskSize, one operator each
bitsPerParam(st) == Switch(BitsPerParam, st.modelQuant, 8)

totalBits(st) == fmul(fmul(FromInt(st.params), Giga), FromInt(bitsPerParam(st)))

bytes(st) == fdiv(totalBits(st), FromInt(8))

gigabytes(st) == fdiv(bytes(st), Giga)

\* the KV cache counted in
calculateOnDiskSizeWithKv(st) ==
  fadd(fmul(gigabytes(st), overheadFactor), kvCacheMem(st))

calculateOnDiskSize(st) == fmul(gigabytes(st), overheadFactor)

(***************************************************************************)
(* Render (section 3 of App.tsx): every state change re-runs the function  *)
(* body, which recomputes both results from the new state.                 *)
(***************************************************************************)
\* a render that keeps the results of the render before
RenderStale ==
  /\ rendered' = TRUE
  /\ UNCHANGED <<recommendation, onDiskSize>>

Render ==
  /\ rendered' = TRUE
  /\ recommendation' = calculateHardwareRecommendation(State')
  /\ onDiskSize' = calculateOnDiskSize(State')

(***************************************************************************)
(* The component: Init is the first render of the useState defaults, and   *)
(* there is one action per event handler.                                  *)
(***************************************************************************)
MaxTimers == 1

\* values the controls are moved to
ParamsChoices == {7, 65}
ContextChoices == {2048, 4096}
MemoryChoices == {8, 128}

Init ==
  /\ params = 65
  /\ modelQuant = "Q4"
  /\ useKvCache = TRUE
  /\ kvCacheQuant = "F16"
  /\ contextLength = 4096
  /\ memoryMode = "DISCRETE_GPU"
  /\ systemMemory = 128
  /\ loading = FALSE
  /\ timers = 0
  /\ rendered = TRUE
  /\ recommendation = calculateHardwareRecommendation(State)
  /\ onDiskSize = calculateOnDiskSize(State)

SetParams ==
  /\ \E v \in ParamsChoices : params' = v
  /\ UNCHANGED <<modelQuant, useKvCache, kvCacheQuant, contextLength,
                 memoryMode, systemMemory, loading, timers>>
  /\ Render

SetModelQuant ==
  /\ \E v \in ModelQuantization : modelQuant' = v
  /\ UNCHANGED <<params, useKvCache, kvCacheQuant, contextLength,
                 memoryMode, systemMemory, loading, timers>>
  /\ Render

SetContextLength ==
  /\ \E v \in ContextChoices : contextLength' = v
  /\ UNCHANGED <<params, modelQuant, useKvCache, kvCacheQuant,
                 memoryMode, systemMemory, loading, timers>>
  /\ Render

ToggleKvCache ==
  /\ useKvCache' = ~useKvCache
  /\ UNCHANGED <<params, modelQuant, kvCacheQuant, contextLength,
                 memoryMode, systemMemory, loading, timers>>
  /\ Render

SetKvCacheQuant ==
  /\ \E v \in KvCacheQuantization : kvCacheQuant' = v
  /\ UNCHANGED <<params, modelQuant, useKvCache, contextLength,
                 memoryMode, systemMemory, loading, timers>>
  /\ Render

SetMemoryMode ==
  /\ \E v \in MemoryMode : memoryMode' = v
  /\ UNCHANGED <<params, modelQuant, useKvCache, kvCacheQuant, contextLength,
                 systemMemory, loading, timers>>
  /\ Render

SetSystemMemory ==
  /\ \E v \in MemoryChoices : systemMemory' = v
  /\ UNCHANGED <<params, modelQuant, useKvCache, kvCacheQuant, contextLength,
                 memoryMode, loading, timers>>
  /\ Render

\* onSubmit: show the spinner and arm a timeout that hides it
Submit ==
  /\ timers < MaxTimers
  /\ loading' = TRUE
  /\ timers' = timers + 1
  /\ UNCHANGED inputs
  /\ Render

\* the callback of setTimeout in onSubmit
Timeout ==
  /\ timers > 0
  /\ loading' = FALSE
  /\ timers' = timers - 1
  /\ UNCHANGED inputs
  /\ Render

Next ==
  \/ SetParams
  \/ SetModelQuant
  \/ SetContextLength
  \/ ToggleKvCache
  \/ SetKvCacheQuant
  \/ SetMemoryMode
  \/ SetSystemMemory
  \/ Submit
  \/ Timeout

Spec == Init /\ [][Next]_vars

(***************************************************************************)
(* The estimation engine on its own: the calculation functions are pure    *)
(* functions of the seven inputs, so they are also run once on every input *)
(* record of a bounded part of the range of the controls                   *)
(* (params 1..1000, contextLength 128..32768 by 128, systemMemory 8..512   *)
(* by 8).                                                                  *)
(***************************************************************************)
MaxParams == 7
MaxContextSteps == 4
MaxMemorySteps == 1

EngineParams == (1..MaxParams) \cup {65}
EngineContexts == {1024 * k : k \in 1..MaxContextSteps} \cup {32768}
EngineMemories == {8 * k : k \in 1..MaxMemorySteps} \cup {128, 256}

NoRecommendation ==
  [gpuType |-> "", vramNeeded |-> 0, fitsUnified |-> FALSE,
   systemRamNeeded |-> Zero, gpusRequired |-> 0]

InitInputs(modelQuants, kvQuants) ==
  /\ params \in EngineParams
  /\ modelQuant \in modelQuants
  /\ useKvCache \in BOOLEAN
  /\ kvCacheQuant \in kvQuants
  /\ contextLength \in EngineContexts
  /\ memoryMode \in MemoryMode
  /\ systemMemory \in EngineMemories
  /\ loading = FALSE
  /\ timers = 0
  /\ rendered = FALSE
  /\ recommendation = NoRecommendation
  /\ onDiskSize = Zero

InitEngine == InitInputs(ModelQuantization, KvCacheQuantization)

Calculate ==
  /\ ~rendered
  /\ UNCHANGED <<inputs, loading, timers>>
  /\ Render

SpecEngine == InitEngine /\ [][Calculate]_vars

(***************************************************************************)
(* The engine on quantization values outside the two enumerations: the     *)
(* types do not exist at run time, so a caller can pass any string.        *)
(***************************************************************************)
ForeignModelQuants == {"INT8", ""}
ForeignKvQuants == {"Q6", ""}

InitForeign ==
  InitInputs(ModelQuantization \cup ForeignModelQuants,
             KvCacheQuantization \cup ForeignKvQuants)

SpecForeign == InitForeign /\ [][Calculate]_vars

(***************************************************************************)
(* Properties.                                                             *)
(***************************************************************************)
Defaults ==
  /\ params = 65
  /\ modelQuant = "Q4"
  /\ contextLength = 4096
  /\ useKvCache
  /\ kvCacheQuant = "F16"

\* C1: calculateRequiredVram returns params * modelFactor * contextScale +
\* kvMem, with contextScale = contextLength / 2048 above 2048 and exactly 1
\* at or below it, and kvMem = params * kvFactor * contextScale * 0.2 with
\* the KV cache enabled and 0 without; contextScale never decreases as
\* contextLength grows and is never below 1.  Every operation is the
\* Number operation, evaluated left to right.
C1_RequiredVramFormula ==
  rendered =>
    LET p        == FromInt(params)
        scale    == IF contextLength > 2048
                    THEN fdiv(FromInt(contextLength), FromInt(2048))
                    ELSE FromInt(1)
        kvMem    == IF useKvCache
                    THEN fmul(fmul(fmul(p, getKvCacheQuantFactor(kvCacheQuant)),
                                   scale),
                              Literal(2, 10))
                    ELSE Zero
        expected == fadd(fmul(fmul(p, getModelQuantFactor(modelQuant)), scale),
                         kvMem)
    IN  /\ calculateRequiredVram(State) = expected
        /\ recommendation.vramNeeded = toFixed(expected, 1)
        /\ contextScale(contextLength) = scale
        /\ fle(FromInt(1), contextScale(contextLength))
        /\ \A c \in EngineContexts :
             c <= contextLength =>
               fle(contextScale(c), contextScale(contextLength))

\* a context below the reference, KV cache on: 65 * 0.5 + 65 * 2 * 0.2 = 58.5
C1_Witness ==
  /\ rendered
  /\ contextLength = 1024
  /\ params = 65
  /\ modelQuant = "Q4"
  /\ useKvCache
  /\ kvCacheQuant = "F16"
  /\ recommendation.vramNeeded = 585

\* C2: in DISCRETE_GPU mode gpusRequired is 1 exactly when the required
\* VRAM is at most 24, and otherwise the least whole number of 24 GB cards
\* that holds it (so an exact multiple of 24 takes no extra card); the
\* default inputs need 117 GB and 5 cards.
C2_GpusRequired ==
  rendered /\ memoryMode = "DISCRETE_GPU" =>
    LET r == calculateRequiredVram(State)
        g == recommendation.gpusRequired
    IN  /\ g = 1 <=> fle(r, FromInt(24))
        /\ ~fle(r, FromInt(24)) =>
             /\ g > 1
             /\ fle(r, FromInt(24 * g))
             /\ ~fle(r, FromInt(24 * (g - 1)))
        /\ Defaults => r = FromInt(117) /\ g = 5

\* an exact multiple: 6 * 4 * 2 = 48 GB on two cards
C2_Witness ==
  /\ rendered
  /\ memoryMode = "DISCRETE_GPU"
  /\ calculateRequiredVram(State) = FromInt(48)
  /\ recommendation.gpusRequired = 2

\* C3: in UNIFIED_MEMORY mode fitsUnified is true exactly when the required
\* VRAM is at most 75% of systemMemory (the bound included), and
\* gpusRequired is 1 when it fits and 0 when it does not.
C3_FitsUnified ==
  rendered /\ memoryMode = "UNIFIED_MEMORY" =>
    LET r     == calculateRequiredVram(State)
        limit == fdiv(FromInt(3 * systemMemory), FromInt(4))
    IN  /\ recommendation.fitsUnified = fle(r, limit)
        /\ recommendation.gpusRequired =
             IF recommendation.fitsUnified THEN 1 ELSE 0

\* exactly at the bound: 6 GB required, 75% of 8 GB available
C3_Witness ==
  /\ rendered
  /\ memoryMode = "UNIFIED_MEMORY"
  /\ systemMemory = 8
  /\ calculateRequiredVram(State) = FromInt(6)
  /\ recommendation.fitsUnified
  /\ recommendation.gpusRequired = 1

\* C4: systemRamNeeded is the larger of systemMemory and the required VRAM
\* in DISCRETE_GPU mode (single card or several), is systemMemory in
\* UNIFIED_MEMORY mode (fitting or not), and is never below systemMemory.
C4_SystemRamNeeded ==
  rendered =>
    LET r   == calculateRequiredVram(State)
        mem == FromInt(systemMemory)
    IN  /\ memoryMode = "DISCRETE_GPU" =>
             recommendation.systemRamNeeded = IF flt(mem, r) THEN r ELSE mem
        /\ memoryMode = "UNIFIED_MEMORY" =>
             recommendation.systemRamNeeded = mem
        /\ fle(mem, recommendation.systemRamNeeded)

\* several cards and more VRAM than system memory: the VRAM is reported
C4_Witness ==
  /\ rendered
  /\ memoryMode = "DISCRETE_GPU"
  /\ recommendation.gpusRequired > 1
  /\ flt(FromInt(systemMemory), calculateRequiredVram(State))
  /\ recommendation.systemRamNeeded = calculateRequiredVram(State)
  /\ recommendation.systemRamNeeded # FromInt(systemMemory)

\* the quantization table of the on-disk size as the documentation gives it
DocumentedBits ==
  [F32 |-> 32, F16 |-> 16, Q8 |-> 8, Q6 |-> 6, Q5 |-> 5, Q4 |-> 4, Q3 |-> 3,
   Q2 |-> 2, GPTQ |-> 4, AWQ |-> 4]

\* params * bitsPerParam / 8 * 1.1 in Number arithmetic, left to right
DocumentedDiskSize ==
  fmul(fdiv(fmul(FromInt(params), FromInt(DocumentedBits[modelQuant])),
            FromInt(8)),
       Literal(11, 10))

\* the Number next above a positive a that is no power of two away from it
NextUp(a) == [m |-> BigAdd(a.m, <<1>>), e |-> a.e]

\* C5 as stated: calculateOnDiskSize returns params * bitsPerParam / 8 * 1.1
\* with the documented bits per parameter, and 7B at F16 gives 15.4.
C5_OnDiskSizeAsStated ==
  rendered =>
    /\ onDiskSize = DocumentedDiskSize
    /\ params = 7 /\ modelQuant = "F16" => onDiskSize = Literal(154, 10)

\* C5: calculateOnDiskSize returns params * bitsPerParam / 8 * 1.1 in Number
\* arithmetic with the documented bits per parameter; 7B at F16 gives
\* 15.400000000000002, the Number next above 15.4, which toFixed(2) shows
\* as 15.40.
C5_OnDiskSize ==
  rendered =>
    /\ onDiskSize = DocumentedDiskSize
    /\ params = 7 /\ modelQuant = "F16" =>
         /\ onDiskSize = NextUp(Literal(154, 10))
         /\ toFixed(onDiskSize, 2) = 1540

\* 7B at F16, after the calculation
C5_Witness ==
  /\ rendered
  /\ params = 7
  /\ modelQuant = "F16"
  /\ onDiskSize # Zero
  /\ flt(Literal(154, 10), onDiskSize)
  /\ flt(onDiskSize, Literal(155, 10))

\* C6: the on-disk size does not depend on contextLength or useKvCache:
\* records that agree on everything else give the same calculateOnDiskSize.
C6_DiskSizeIndependent ==
  rendered =>
    \A c \in EngineContexts, kv \in BOOLEAN :
      calculateOnDiskSize([State EXCEPT !.contextLength = c,
                                        !.useKvCache = kv]) = onDiskSize

\* the two records differ in both fields and in the VRAM they require
C6_Witness ==
  /\ rendered
  /\ contextLength = 4096
  /\ useKvCache
  /\ onDiskSize = calculateOnDiskSize([State EXCEPT !.contextLength = 1024,
                                                    !.useKvCache = FALSE])
  /\ calculateRequiredVram(State) #
       calculateRequiredVram([State EXCEPT !.contextLength = 1024,
                                           !.useKvCache = FALSE])

\* the precisions of C7, lowest first
PrecisionOrder == <<"Q2", "Q3", "Q4", "Q5", "Q6", "Q8", "F16", "F32">>

\* C7: with the other inputs fixed, a modelQuant higher in the order
\* Q2 < Q3 < Q4 < Q5 < Q6 < Q8 < F16 < F32 requires strictly more VRAM.
C7_PrecisionIncreasesVram ==
  rendered =>
    \A i, j \in 1..Len(PrecisionOrder) :
      modelQuant = PrecisionOrder[i] /\ i < j =>
        flt(calculateRequiredVram(State),
            calculateRequiredVram([State EXCEPT
                                     !.modelQuant = PrecisionOrder[j]]))

\* Q5 against Q6, whose factors are the closest pair
C7_Witness ==
  /\ rendered
  /\ modelQuant = "Q5"
  /\ useKvCache
  /\ flt(calculateRequiredVram(State),
         calculateRequiredVram([State EXCEPT !.modelQuant = "Q6"]))

\* C8: the VRAM required with the KV cache disabled is at most the VRAM
\* required by the same inputs with it enabled, whatever kvCacheQuant is.
C8_KvCacheNeverCheaper ==
  rendered /\ useKvCache =>
    fle(calculateRequiredVram([State EXCEPT !.useKvCache = FALSE]),
        calculateRequiredVram(State))

\* the cache is on and costs something
C8_Witness ==
  /\ rendered
  /\ useKvCache
  /\ flt(calculateRequiredVram([State EXCEPT !.useKvCache = FALSE]),
         calculateRequiredVram(State))

\* C10: fitsUnified is false in DISCRETE_GPU mode, also when the required
\* VRAM is within 75% of systemMemory; it is true only in UNIFIED_MEMORY
\* mode.
C10_FitsUnifiedOnlyUnified ==
  rendered =>
    /\ memoryMode = "DISCRETE_GPU" => ~recommendation.fitsUnified
    /\ recommendation.fitsUnified => memoryMode = "UNIFIED_MEMORY"

\* discrete mode, and the model would fit the unified limit
C10_Witness ==
  /\ rendered
  /\ memoryMode = "DISCRETE_GPU"
  /\ fle(calculateRequiredVram(State),
         fdiv(FromInt(3 * systemMemory), FromInt(4)))
  /\ ~recommendation.fitsUnified

\* a Number that is a finite value, zero or positive
IsNumber(a) ==
  \/ a = Zero
  \/ /\ DOMAIN a = {"m", "e"}
     /\ BigBitLen(a.m) = Precision
     /\ a.e \in Int

\* C9: the lookups are total: for a quantization outside the enumerations
\* getModelQuantFactor and getKvCacheQuantFactor return 1.0 and
\* calculateOnDiskSize counts 8 bits per parameter, so the results are
\* those of Q8 and the engine still gives a required VRAM, a recommendation
\* and a disk size.
C9_LookupsTotal ==
  /\ modelQuant \notin ModelQuantization =>
       /\ getModelQuantFactor(modelQuant) = FromInt(1)
       /\ bitsPerParam(State) = 8
  /\ kvCacheQuant \notin KvCacheQuantization =>
       getKvCacheQuantFactor(kvCacheQuant) = FromInt(1)
  /\ rendered =>
       /\ IsNumber(calculateRequiredVram(State))
       /\ calculateRequiredVram(State) # Zero
       /\ recommendation.vramNeeded = toFixed(calculateRequiredVram(State), 1)
       /\ recommendation.gpuType # NoRecommendation.gpuType
       /\ recommendation.fitsUnified \in BOOLEAN
       /\ recommendation.gpusRequired \in Nat
       /\ IsNumber(recommendation.systemRamNeeded)
       /\ IsNumber(onDiskSize)
       /\ onDiskSize # Zero
       /\ modelQuant \notin ModelQuantization =>
            /\ recommendation =
                 calculateHardwareRecommendation(
                   [State EXCEPT !.modelQuant = "Q8"])
            /\ onDiskSize =
                 calculateOnDiskSize([State EXCEPT !.modelQuant = "Q8"])
       /\ kvCacheQuant \notin KvCacheQuantization =>
            recommendation =
              calculateHardwareRecommendation(
                [State EXCEPT !.kvCacheQuant = "Q8"])

\* both quantizations unknown, the KV cache in use, a result on the page
C9_Witness ==
  /\ rendered
  /\ modelQuant \notin ModelQuantization
  /\ kvCacheQuant \notin KvCacheQuantization
  /\ useKvCache
  /\ recommendation.gpusRequired >= 1
  /\ recommendation.vramNeeded > 0
  /\ onDiskSize # Zero

\* C11: after any sequence of input changes and submits the recommendation
\* and the on-disk size are the engine's results for the current inputs,
\* whatever came before; a submit (a step that arms a timeout) sets loading
\* and changes no input and no result; a toggle of the KV cache changes
\* useKvCache alone, kvCacheQuant included in what it keeps, so that the
\* toggle back yields the results shown before the toggle.
C11_ResultsOfCurrentInputs ==
  /\ [](/\ rendered
        /\ recommendation = calculateHardwareRecommendation(State)
        /\ onDiskSize = calculateOnDiskSize(State))
  /\ [][timers' > timers =>
          /\ loading'
          /\ UNCHANGED <<inputs, recommendation, onDiskSize>>]_vars
  /\ [][useKvCache' # useKvCache =>
          /\ UNCHANGED <<params, modelQuant, kvCacheQuant, contextLength,
                         memoryMode, systemMemory, loading, timers>>
          /\ calculateHardwareRecommendation(
               [State' EXCEPT !.useKvCache = useKvCache]) = recommendation
          /\ calculateOnDiskSize(
               [State' EXCEPT !.useKvCache = useKvCache]) = onDiskSize]_vars

\* inputs moved off their defaults, the cache toggled off with a chosen
\* kvCacheQuant, a submit pending, and the results those of the inputs
C11_Witness ==
  /\ loading
  /\ timers > 0
  /\ params = 7
  /\ modelQuant = "F16"
  /\ memoryMode = "UNIFIED_MEMORY"
  /\ ~useKvCache
  /\ kvCacheQuant = "Q4"
  /\ recommendation = calculateHardwareRecommendation(State)
  /\ recommendation #
       calculateHardwareRecommendation([State EXCEPT !.useKvCache = TRUE])
  /\ onDiskSize = calculateOnDiskSize(State)

====
